---- MODULE Spec2Model ----
(***************************************************************************)
(* NanoBanana Map Editor (Foundry VTT module): the selection controllers,  *)
(* the capture -> dialog -> remote edit -> placement workflows, the        *)
(* flatten operation and the region capture strategies, as state machines. *)
(*                                                                         *)
(* The repository holds several builds of the module side by side.  The    *)
(* variable build says which one is loaded:                                *)
(*   "js"       scripts/main.js + the layer-composite capture + the        *)
(*              multimodal client + dialog.js + tile.js + flatten.js       *)
(*   "mjs"      scripts/main.mjs + capture.mjs + the generic /edit client  *)
(*              + the tile placer                                          *)
(*   "portrait" the portrait / token edit dialogs of portrait-dialog.js    *)
(*   "capture"  one call of a two-strategy captureCanvasRegion, in the     *)
(*              version of capture.js, unnamed/part_002 or main.mjs        *)
(* The specification SpecCalls applies the functions that share no state   *)
(* with the workflows (the remote clients, the background removal, the     *)
(* coordinate mapping) to inputs drawn by its initial predicate.           *)
(*                                                                         *)
(* An async function runs synchronously up to its first await, so every    *)
(* action is one handler or one promise continuation, from the event that  *)
(* starts it to the next await.                                            *)
(***************************************************************************)
EXTENDS Integers, Sequences, FiniteSets, TLC

VARIABLES
  build,     \* which build of the module is loaded
  host,      \* host configuration the module reads (settings, scene, DOM)
  layers,    \* the controller objects created so far (selection layers / capturers)
  current,   \* main.js selectionLayer, main.mjs capturer: an index of layers, 0 = null
  runs,      \* the workflow runs started so far
  renderer,  \* the shared renderer / viewport state the capture changes
  scene,     \* the documents of the scene: tiles and background
  cap,       \* one call of a two-strategy captureCanvasRegion (build "capture")
  call       \* one call of a function without shared state (SpecCalls)

vars == <<build, call, host, layers, current, runs, renderer, scene, cap>>

(***************************************************************************)
(* Bounds of the model.                                                    *)
(***************************************************************************)
MaxLayers == 2
MaxRuns == 2

(***************************************************************************)
(* Values.                                                                 *)
(***************************************************************************)
None == << >>
Some(v) == << v >>

Min(a, b) == IF a <= b THEN a ELSE b
Abs(a) == IF a < 0 THEN -a ELSE a

\* main.js:144 and capture.mjs:152: the minimum selection size
MinSelection == 10

\* pointer positions: corners that give drags of width and height 0, 1,
\* MinSelection - 1 and MinSelection, in both directions
Points ==
  {[x |-> 0, y |-> 0],
   [x |-> MinSelection, y |-> MinSelection],
   [x |-> MinSelection - 1, y |-> MinSelection],
   [x |-> MinSelection, y |-> MinSelection - 1]}

\* the browser window the renderer is sized to, and its device pixel ratio
WindowSize == [w |-> 100, h |-> 80]
HostResolution == 2
HomeView == [x |-> 50, y |-> 40, scale |-> 2]
\* canvas.dimensions: the rectangle of the whole scene
SceneRect == [x |-> 0, y |-> 0, width |-> 40, height |-> 30]

Renderer0 == [resolution |-> HostResolution, size |-> WindowSize, view |-> HomeView]

(***************************************************************************)
(* NanoBananaSelectionLayer._normalizeRect and the same four lines of      *)
(* NanaBananaCapturer._mouseUp.                                            *)
(***************************************************************************)
\* a rectangle from the anchor to the release point, with signed sides
normalizeRect_signed(start, end) ==
  [x |-> start.x, y |-> start.y,
   width |-> end.x - start.x, height |-> end.y - start.y]

normalizeRect(start, end) ==
  [x |-> Min(start.x, end.x),
   y |-> Min(start.y, end.y),
   width |-> Abs(end.x - start.x),
   height |-> Abs(end.y - start.y)]

\* a size test that rejects a rectangle only when both sides are short
TooSmall_both(rect) == rect.width < MinSelection /\ rect.height < MinSelection

\* the minimum selection size check of both controllers
TooSmall(rect) == rect.width < MinSelection \/ rect.height < MinSelection


(***************************************************************************)
(* Controller objects.  One record serves both controllers:                *)
(*   active    _active (main.js) / active (capture.mjs)                    *)
(*   start     _startPoint / _dragStart, None = null                       *)
(*   handlers  the event names whose listener of this object is registered *)
(*   attached  the container is a child of the stage / the overlay is in   *)
(*             the DOM                                                     *)
(*   shown     the container is visible / the overlay is displayed         *)
(*   drawn     what the rubber band shows: "none", "dot" or "rect"         *)
(*   removal   a requestAnimationFrame callback that removes and destroys  *)
(*             the container is pending                                    *)
(*   note      history of the last thing that happened to the object:      *)
(*             "small" (a pointer-up finalized a rectangle that was too    *)
(*             small), "drag" (deactivate() was called in the middle of a  *)
(*             drag), or "none"                                            *)
(*   over      the container is in rootBoundary.overTargets, the hover     *)
(*             tracking table of the host's event system                   *)
(***************************************************************************)
NewLayer ==
  [active |-> FALSE, start |-> None, handlers |-> {}, attached |-> FALSE,
   shown |-> FALSE, drawn |-> "none", removal |-> FALSE, over |-> FALSE,
   note |-> "none"]

LayerEvents == {"pointerdown", "pointermove", "pointerup", "pointerupoutside"}

\* NanoBananaSelectionLayer.activate
Layer_activate(L) ==
  IF L.active THEN L
  ELSE [L EXCEPT !.active = TRUE, !.attached = TRUE, !.shown = TRUE,
                 !.handlers = LayerEvents, !.note = "none"]

\* a deactivate that forgets the pointerupoutside handler
Layer_deactivate_partial(L) ==
  IF ~L.active THEN L
  ELSE [L EXCEPT !.active = FALSE,
                 !.handlers = @ \ {"pointerdown", "pointermove", "pointerup"},
                 !.over = FALSE,
                 !.shown = FALSE,
                 !.drawn = "none",
                 !.removal = TRUE,
                 !.start = None,
                 !.note = IF L.start # None THEN "drag" ELSE "none"]

\* a deactivate without the call of _purgeFromEventBoundary
Layer_deactivate_nopurge(L) ==
  IF ~L.active THEN L
  ELSE [L EXCEPT !.active = FALSE,
                 !.handlers = @ \ LayerEvents,
                 !.shown = FALSE,
                 !.drawn = "none",
                 !.removal = TRUE,
                 !.start = None,
                 !.note = IF L.start # None THEN "drag" ELSE "none"]

\* NanoBananaSelectionLayer.deactivate: the container exists exactly while
\* the layer is active, so the inner test of _container always passes.
\* The handlers come off, _purgeFromEventBoundary filters the container out
\* of overTargets, and the removal is left to a frame callback.
Layer_deactivate(L) ==
  IF ~L.active THEN L
  ELSE [L EXCEPT !.active = FALSE,
                 !.handlers = @ \ LayerEvents,
                 !.over = FALSE,
                 !.shown = FALSE,
                 !.drawn = "none",
                 !.removal = TRUE,
                 !.start = None,
                 !.note = IF L.start # None THEN "drag" ELSE "none"]

(***************************************************************************)
(* Workflow runs.  One record per call of processSelection, flattenTiles,  *)
(* _handleCapture (with the capture that precedes it) or of a portrait /   *)
(* token dialog:                                                           *)
(*   kind      "select" (processSelection), "capture" (_mouseUp and        *)
(*             _handleCapture), "flatten", "portrait" or "token"           *)
(*   pc        the await the run is suspended at, or "done"                *)
(*   outcome   "running", "ok", "cancelled" (the prompt dialog was          *)
(*             dismissed), "noprompt", "declined" (the flatten             *)
(*             confirmation), "nothing" (a precondition warning) or        *)
(*             "failed"                                                    *)
(*   sel       the rectangle the controller finalized                      *)
(*   rect      the scene rectangle handed to the orchestrator              *)
(*   old       the renderer state saved by the capture in flight           *)
(*   restored  history: "same" when the renderer state after the capture   *)
(*             settled equals the state at its call, "differ" when not     *)
(*   errors    history: ui.notifications.error calls of this run           *)
(*   editReq   history: remote edit requests sent                          *)
(*   editFailed history: the remote edit call threw                        *)
(*   uploads   history: files stored by FilePicker.upload                  *)
(*   placed    history: the rectangle of the tile the run created          *)
(*   docs      history: actor / token / scene document updates             *)
(*   snap      flattenTiles: the tiles read at its start                   *)
(***************************************************************************)
NoRect == [x |-> 0, y |-> 0, width |-> 0, height |-> 0]

NewRun(kind, from, sel, rect) ==
  [kind |-> kind, pc |-> "done", outcome |-> "running", from |-> from,
   sel |-> sel, rect |-> rect, old |-> None, restored |-> "n/a",
   errors |-> 0, detail |-> 0, captureFailed |-> FALSE, uploadFailed |-> FALSE,
   editReq |-> 0, editFailed |-> FALSE, uploads |-> 0,
   placed |-> None, docs |-> 0, snap |-> {}]

\* the run reaches await point pc
At(run, pc) == [run EXCEPT !.pc = pc]

\* the run ends with outcome o and no message
End(run, o) == [run EXCEPT !.pc = "done", !.outcome = o]

\* the catch blocks of processSelection, flattenTiles, _handleCapture,
\* _mouseUp and the dialogs: one ui.notifications.error, then return
Fail(run) ==
  [run EXCEPT !.pc = "done", !.outcome = "failed", !.errors = @ + 1, !.detail = @ + 1]

\* one ui.notifications.error with a localized text only (the error, if any,
\* goes to the console), then return
Notify(run) == [run EXCEPT !.pc = "done", !.outcome = "failed", !.errors = @ + 1]

\* the capture rejected: processSelection has its own catch around it
\* (main.js lines 252-257), flattenTiles and _mouseUp use their outer one
CaptureFail(run) ==
  [(IF run.kind = "select" THEN Notify(run) ELSE Fail(run)) EXCEPT !.captureFailed = TRUE]

(***************************************************************************)
(* Layer-composite captureCanvasRegion (unnamed/part_003).                 *)
(***************************************************************************)
\* lines 52-61: resolution 1, renderer resized to the region, view centred
\* on it at scale 1 (the coordinates of the model make w / 2 an integer)
Reconfigure(rect) ==
  [resolution |-> 1,
   size |-> [w |-> rect.width, h |-> rect.height],
   view |-> [x |-> rect.x + rect.width \div 2,
             y |-> rect.y + rect.height \div 2,
             scale |-> 1]]

\* the finally block, lines 122-128: the saved resolution and view are put
\* back; canvas._onResize() sizes the renderer to the browser window
RestoreRenderer(old) ==
  [resolution |-> old.resolution, size |-> WindowSize, view |-> old.view]

\* The synchronous part of captureCanvasRegion, up to the await of
\* createThumbnail: the run with the capture pending at "thumb" and the
\* reconfigured renderer, or, when a render call throws, the run with the
\* capture rejected and the renderer restored by the finally block.
captureCanvasRegion(run, rect, renderThrows) ==
  IF renderThrows
    THEN [run |-> [run EXCEPT !.restored =
                      IF RestoreRenderer(renderer) = renderer THEN "same" ELSE "differ"],
          rejected |-> TRUE,
          renderer |-> RestoreRenderer(renderer)]
    ELSE [run |-> [run EXCEPT !.pc = "thumb", !.old = Some(renderer)],
          rejected |-> FALSE,
          renderer |-> Reconfigure(rect)]

\* captureFullScene
captureFullScene(run, renderThrows) == captureCanvasRegion(run, SceneRect, renderThrows)


(***************************************************************************)
(* Build "js": scripts/main.js.                                            *)
(***************************************************************************)
\* where a run continues after its step at pc succeeded
\* (processSelection / placeTile, flattenTiles, the portrait and token
\* dialogs with uploadImage and updateActorPortrait / updateActorToken)
NextPc(kind, pc) ==
  CASE pc = "thumb" -> IF kind = "flatten" THEN "mkdir" ELSE "dialog"
    [] pc = "extract" -> "dialog"
    [] pc = "dialog" -> IF kind \in {"select", "capture"} THEN "edit" ELSE "load"
    [] pc = "load" -> "edit"
    [] pc = "edit" -> IF kind = "capture" THEN "tofile" ELSE "mkdir"
    [] pc = "tofile" -> "mkdir"
    [] pc = "mkdir" -> "upload"
    [] pc = "upload" -> IF kind \in {"select", "capture"} THEN "create" ELSE "update"
    [] pc = "update" -> IF kind = "flatten" THEN "delete" ELSE "tokens"
    [] OTHER -> "done"

\* processSelection, from its call to its first await: the two
\* precondition checks, then the capture
processSelection(l, rect, renderThrows) ==
  LET run == NewRun("select", l, rect, rect)
      c == captureCanvasRegion(run, rect, renderThrows)
  IN IF ~host.apiKey \/ ~host.hasScene
       THEN /\ runs' = Append(runs, Notify(run))
            /\ renderer' = renderer
       ELSE /\ runs' = Append(runs, IF c.rejected THEN CaptureFail(c.run) ELSE c.run)
            /\ renderer' = c.renderer

\* nanobananaTool.onChange: toggle the selection layer
nanobananaTool_onChange ==
  /\ build = "js"
  /\ IF current # 0 /\ layers[current].active
       THEN /\ layers' = [layers EXCEPT ![current] = Layer_deactivate(@)]
            /\ current' = 0
       ELSE /\ Len(layers) < MaxLayers
            /\ layers' = Append(layers, Layer_activate(NewLayer))
            /\ current' = Len(layers) + 1
  /\ UNCHANGED <<build, call, host, runs, renderer, scene, cap>>

\* the frame callback scheduled by deactivate: remove and destroy the container
Layer_removalFrame(l) ==
  /\ build = "js"
  /\ layers[l].removal
  /\ layers' = [layers EXCEPT ![l] = [@ EXCEPT !.removal = FALSE, !.attached = FALSE]]
  /\ UNCHANGED <<build, call, host, current, runs, renderer, scene, cap>>

\* NanoBananaSelectionLayer._handlePointerDown; the event system delivers
\* the event to the container the pointer is over, which it tracks
Layer_handlePointerDown(l, pos) ==
  /\ build = "js"
  /\ "pointerdown" \in layers[l].handlers
  /\ layers' = [layers EXCEPT ![l] =
                  [@ EXCEPT !.start = Some(pos), !.drawn = "none", !.note = "none",
                            !.over = TRUE]]
  /\ UNCHANGED <<build, call, host, current, runs, renderer, scene, cap>>

\* NanoBananaSelectionLayer._handlePointerMove (returns at once when no drag
\* is in progress)
Layer_handlePointerMove(l, pos) ==
  /\ build = "js"
  /\ "pointermove" \in layers[l].handlers
  /\ layers[l].start # None
  /\ layers' = [layers EXCEPT ![l] = [@ EXCEPT !.drawn = "rect"]]
  /\ UNCHANGED <<build, call, host, current, runs, renderer, scene, cap>>

\* a pointer-up handler that leaves the drag and the listeners as they are
Layer_handlePointerUp_keep(l, ev, pos, renderThrows) ==
  /\ build = "js"
  /\ ev \in layers[l].handlers
  /\ layers[l].start # None
  /\ LET rect == normalizeRect(layers[l].start[1], pos)
     IN IF TooSmall(rect)
          THEN /\ layers' = [layers EXCEPT ![l] = [@ EXCEPT !.note = "small"]]
               /\ UNCHANGED <<runs, renderer>>
          ELSE /\ Len(runs) < MaxRuns
               /\ layers' = layers
               /\ processSelection(l, rect, renderThrows)
  /\ UNCHANGED <<build, call, host, current, scene, cap>>

\* NanoBananaSelectionLayer._handlePointerUp, registered for pointerup and
\* pointerupoutside (returns at once when no drag is in progress)
Layer_handlePointerUp(l, ev, pos, renderThrows) ==
  /\ build = "js"
  /\ ev \in layers[l].handlers
  /\ layers[l].start # None
  /\ LET rect == normalizeRect(layers[l].start[1], pos)
         idle == [layers[l] EXCEPT !.start = None, !.drawn = "none"]
     IN IF TooSmall(rect)
          THEN /\ layers' = [layers EXCEPT ![l] = [idle EXCEPT !.note = "small"]]
               /\ UNCHANGED <<runs, renderer>>
          ELSE /\ Len(runs) < MaxRuns
               /\ layers' = [layers EXCEPT ![l] = Layer_deactivate(idle)]
               /\ processSelection(l, rect, renderThrows)
  /\ UNCHANGED <<build, call, host, current, scene, cap>>

\* captureCanvasRegion after createThumbnail settled: the finally block,
\* then the caller's continuation (processSelection or flattenTiles)
captureCanvasRegion_settle(r, thumbOk) ==
  /\ build = "js"
  /\ runs[r].pc = "thumb"
  /\ LET old == runs[r].old[1]
         back == [runs[r] EXCEPT !.old = None, !.restored =
                    IF RestoreRenderer(old) = old THEN "same" ELSE "differ"]
     IN /\ renderer' = RestoreRenderer(old)
        /\ runs' = [runs EXCEPT ![r] =
                      IF thumbOk THEN At(back, NextPc(back.kind, "thumb"))
                      ELSE CaptureFail(back)]
  /\ UNCHANGED <<build, call, host, layers, current, scene, cap>>


(***************************************************************************)
(* The multimodal remote edit client (unnamed/part_001) as the workflows   *)
(* see it.  A response is one of: the fetch rejects, a non-success status, *)
(* no candidates, no parts, parts without image data, an image part.       *)
(***************************************************************************)
Responses == {"reject", "http", "nocandidates", "noparts", "noimage", "image"}

\* sendImg2Img after the fetch settled: TRUE when it returns an image
sendImg2Img_returns(resp) == resp = "image"

\* sendImg2Img, from its call to the await of fetch: the credential check,
\* then the request
\* a client that sends the request without looking at the setting
sendImg2Img_nocheck(run) == [At(run, "edit") EXCEPT !.editReq = @ + 1]

sendImg2Img(run) ==
  IF ~host.apiKey
    THEN [Fail(run) EXCEPT !.editFailed = TRUE]
    ELSE [At(run, "edit") EXCEPT !.editReq = @ + 1]

\* showPromptDialog (dialog.js), the generate button: an empty prompt warns
\* and resolves null, which ends processSelection like a cancel
showPromptDialog_generate(r, hasPrompt) ==
  /\ build = "js"
  /\ runs[r].kind = "select" /\ runs[r].pc = "dialog"
  /\ runs' = [runs EXCEPT ![r] =
                IF hasPrompt THEN sendImg2Img(@) ELSE End(@, "noprompt")]
  /\ UNCHANGED <<build, call, host, layers, current, renderer, scene, cap>>

\* a dismissal that is reported like a failure
showPromptDialog_dismiss_error(r) ==
  /\ build = "js"
  /\ runs[r].kind = "select" /\ runs[r].pc = "dialog"
  /\ runs' = [runs EXCEPT ![r] = [End(@, "cancelled") EXCEPT !.errors = @ + 1]]
  /\ UNCHANGED <<build, call, host, layers, current, renderer, scene, cap>>

\* showPromptDialog, the cancel button or the close of the dialog:
\* resolve(null), and processSelection returns
showPromptDialog_dismiss(r) ==
  /\ build = "js"
  /\ runs[r].kind = "select" /\ runs[r].pc = "dialog"
  /\ runs' = [runs EXCEPT ![r] = End(@, "cancelled")]
  /\ UNCHANGED <<build, call, host, layers, current, renderer, scene, cap>>

\* a caller that reports the failed edit and goes on to store the result
sendImg2Img_settle_swallow(r, resp) ==
  /\ build \in {"js", "portrait"}
  /\ runs[r].pc = "edit"
  /\ runs' = [runs EXCEPT ![r] =
                IF sendImg2Img_returns(resp)
                  THEN At(@, NextPc(@.kind, "edit"))
                  ELSE [At(@, NextPc(@.kind, "edit"))
                          EXCEPT !.editFailed = TRUE, !.errors = @ + 1]]
  /\ UNCHANGED <<build, call, host, layers, current, renderer, scene, cap>>

\* sendImg2Img after the fetch settled, then its caller: placeTile or
\* uploadImage start with createDirectory; a throw goes to the catch block
sendImg2Img_settle(r, resp) ==
  /\ build \in {"js", "portrait"}
  /\ runs[r].pc = "edit"
  /\ runs' = [runs EXCEPT ![r] =
                IF sendImg2Img_returns(resp)
                  THEN At(@, NextPc(@.kind, "edit"))
                  ELSE [Fail(@) EXCEPT !.editFailed = TRUE]]
  /\ UNCHANGED <<build, call, host, layers, current, renderer, scene, cap>>

\* FilePicker.createDirectory settled; its result is ignored
createDirectory_settle(r) ==
  /\ runs[r].pc = "mkdir"
  /\ runs' = [runs EXCEPT ![r] = At(@, NextPc(@.kind, "mkdir"))]
  /\ UNCHANGED <<build, call, host, layers, current, renderer, scene, cap>>

\* FilePicker.upload settled with a path, without one, or rejected
UploadResults == {"path", "nopath", "reject"}

\* an upload whose response is used without looking at its path
upload_settle_nopath(r, res) ==
  /\ runs[r].pc = "upload"
  /\ runs' = [runs EXCEPT ![r] =
                IF res # "reject"
                  THEN [At(@, NextPc(@.kind, "upload")) EXCEPT
                          !.uploads = @ + 1, !.uploadFailed = (res = "nopath")]
                  ELSE [Fail(@) EXCEPT !.uploadFailed = TRUE]]
  /\ UNCHANGED <<build, call, host, layers, current, renderer, scene, cap>>

upload_settle(r, res) ==
  /\ runs[r].pc = "upload"
  /\ runs' = [runs EXCEPT ![r] =
                IF res = "path"
                  THEN [At(@, NextPc(@.kind, "upload")) EXCEPT !.uploads = @ + 1]
                  ELSE [Fail(@) EXCEPT !.uploadFailed = TRUE]]
  /\ UNCHANGED <<build, call, host, layers, current, renderer, scene, cap>>

\* placeTile after scene.createEmbeddedDocuments settled
placeTile_create(r, ok) ==
  /\ build = "js"
  /\ runs[r].pc = "create"
  /\ IF ok
       THEN /\ runs' = [runs EXCEPT ![r] =
                          [End(@, "ok") EXCEPT !.placed = Some(runs[r].rect)]]
            /\ scene' = [scene EXCEPT !.tiles = @ \cup {r}]
       ELSE /\ runs' = [runs EXCEPT ![r] = Fail(@)]
            /\ scene' = scene
  /\ UNCHANGED <<build, call, host, layers, current, renderer, cap>>

\* flattenTool.onChange -> flattenTiles, up to the confirmation dialog
flattenTiles ==
  /\ build = "js"
  /\ Len(runs) < MaxRuns
  /\ LET run == NewRun("flatten", 0, SceneRect, SceneRect)
     IN runs' = Append(runs,
                  IF ~host.hasScene THEN Notify(run)
                  ELSE IF scene.tiles = {} THEN End(run, "nothing")
                  ELSE [At(run, "confirm") EXCEPT !.snap = scene.tiles])
  /\ UNCHANGED <<build, call, host, layers, current, renderer, scene, cap>>

\* flattenTiles after the confirmation: return, or capture the full scene
flattenTiles_confirm(r, confirmed, renderThrows) ==
  /\ build = "js"
  /\ runs[r].pc = "confirm"
  /\ LET c == captureFullScene(runs[r], renderThrows)
     IN IF ~confirmed
          THEN /\ runs' = [runs EXCEPT ![r] = End(@, "declined")]
               /\ renderer' = renderer
          ELSE /\ runs' = [runs EXCEPT ![r] =
                             IF c.rejected THEN CaptureFail(c.run) ELSE c.run]
               /\ renderer' = c.renderer
  /\ UNCHANGED <<build, call, host, layers, current, scene, cap>>

\* flattenTiles after scene.update settled: then delete the tiles
flattenTiles_update(r, ok) ==
  /\ build = "js"
  /\ runs[r].kind = "flatten" /\ runs[r].pc = "update"
  /\ IF ok
       THEN /\ runs' = [runs EXCEPT ![r] =
                          [At(@, NextPc(@.kind, "update")) EXCEPT !.docs = @ + 1]]
            /\ scene' = [scene EXCEPT !.background = r]
       ELSE /\ runs' = [runs EXCEPT ![r] = Fail(@)]
            /\ scene' = scene
  /\ UNCHANGED <<build, call, host, layers, current, renderer, cap>>

\* a flatten that deletes every tile the scene has at the time of the call
flattenTiles_delete_all(r, ok) ==
  /\ build = "js"
  /\ runs[r].pc = "delete"
  /\ IF ok
       THEN /\ runs' = [runs EXCEPT ![r] = End(@, "ok")]
            /\ scene' = [scene EXCEPT !.tiles = {}]
       ELSE /\ runs' = [runs EXCEPT ![r] = Fail(@)]
            /\ scene' = scene
  /\ UNCHANGED <<build, call, host, layers, current, renderer, cap>>

\* flattenTiles after scene.deleteEmbeddedDocuments settled; tileIds are
\* the ids of the tiles read from scene.tiles.contents at the start
flattenTiles_delete(r, ok) ==
  /\ build = "js"
  /\ runs[r].pc = "delete"
  /\ IF ok
       THEN /\ runs' = [runs EXCEPT ![r] = End(@, "ok")]
            /\ scene' = [scene EXCEPT !.tiles = @ \ runs[r].snap]
       ELSE /\ runs' = [runs EXCEPT ![r] = Fail(@)]
            /\ scene' = scene
  /\ UNCHANGED <<build, call, host, layers, current, renderer, cap>>

(***************************************************************************)
(* Build "mjs": scripts/main.mjs with NanaBananaCapturer (capture.mjs),    *)
(* callNanoBananaAPI and placeEditedTile.                                  *)
(***************************************************************************)
\* NanaBananaCapturer._removeOverlay
Capturer_removeOverlay(L) ==
  IF ~L.attached THEN L
  ELSE [L EXCEPT !.handlers = @ \ {"mousedown", "mousemove", "mouseup"},
                 !.attached = FALSE,
                 !.shown = FALSE,
                 !.drawn = "none",
                 !.start = None]

\* NanaBananaCapturer._createOverlay
Capturer_createOverlay(L) ==
  LET R == Capturer_removeOverlay(L)
  IN IF ~host.board THEN R
     ELSE [R EXCEPT !.attached = TRUE, !.shown = TRUE,
                    !.handlers = @ \cup {"mousedown"}]

\* NanaBananaCapturer.activate
Capturer_activate(L) ==
  IF L.active THEN L
  ELSE Capturer_createOverlay([L EXCEPT !.active = TRUE, !.note = "none"])

\* NanaBananaCapturer.deactivate
Capturer_deactivate(L) ==
  IF ~L.active THEN L
  ELSE [Capturer_removeOverlay([L EXCEPT !.active = FALSE])
          EXCEPT !.note = IF L.start # None THEN "drag" ELSE "none"]

\* Math.round(n / d) for d > 0: the nearest integer, halves towards +Infinity
Round(n, d) == (2 * n + d) \div (2 * d)

\* p / a in JavaScript, where a is the fraction n / d with n >= 0: the
\* number num / den, and for a division by zero, which does not throw,
\* Infinity, -Infinity or NaN
Quotient(p, a) ==
  IF a.n # 0 THEN [num |-> p * a.d, den |-> a.n]
  ELSE IF p > 0 THEN "Infinity"
  ELSE IF p < 0 THEN "-Infinity"
  ELSE "NaN"

\* NanaBananaCapturer._screenToScene: worldTransform has a = d = host.wt.a
Capturer_screenToScene(rect) ==
  [x |-> Quotient(rect.x - host.wt.tx, host.wt.a),
   y |-> Quotient(rect.y - host.wt.ty, host.wt.a),
   width |-> Quotient(rect.width, host.wt.a),
   height |-> Quotient(rect.height, host.wt.a)]

\* the canvasReady hook: a new capturer replaces the module-level one
canvasReady ==
  /\ build = "mjs"
  /\ Len(layers) < MaxLayers
  /\ layers' = Append(layers, NewLayer)
  /\ current' = Len(layers) + 1
  /\ UNCHANGED <<build, call, host, runs, renderer, scene, cap>>

\* the tool button's onClick(toggled)
captureTool_onClick(toggled) ==
  /\ build = "mjs"
  /\ current # 0
  /\ layers' = [layers EXCEPT ![current] =
                  IF toggled THEN Capturer_activate(@) ELSE Capturer_deactivate(@)]
  /\ UNCHANGED <<build, call, host, current, runs, renderer, scene, cap>>

\* the toggleCapture keybinding -> NanaBananaCapturer.toggle
toggleCapture_onDown ==
  /\ build = "mjs"
  /\ current # 0
  /\ layers' = [layers EXCEPT ![current] =
                  IF @.active THEN Capturer_deactivate(@) ELSE Capturer_activate(@)]
  /\ UNCHANGED <<build, call, host, current, runs, renderer, scene, cap>>

\* NanaBananaCapturer._mouseDown
Capturer_mouseDown(c, pos) ==
  /\ build = "mjs"
  /\ "mousedown" \in layers[c].handlers
  /\ layers' = [layers EXCEPT ![c] =
                  [@ EXCEPT !.start = Some(pos), !.drawn = "dot", !.note = "none",
                            !.handlers = @ \cup {"mousemove", "mouseup"}]]
  /\ UNCHANGED <<build, call, host, current, runs, renderer, scene, cap>>

\* NanaBananaCapturer._mouseMove
Capturer_mouseMove(c, pos) ==
  /\ build = "mjs"
  /\ "mousemove" \in layers[c].handlers
  /\ layers[c].start # None
  /\ layers' = [layers EXCEPT ![c] = [@ EXCEPT !.drawn = "rect"]]
  /\ UNCHANGED <<build, call, host, current, runs, renderer, scene, cap>>

\* how _captureSceneRegion ends: it throws, it returns the image at once
\* (PIXI v7 extract, or the RenderTexture fallback), or it awaits a promise
CaptureModes == {"throw", "sync", "async"}

\* NanaBananaCapturer._mouseUp, up to its first await.  The mouseup listener
\* is registered by _mouseDown only, so a drag is in progress.
Capturer_mouseUp(c, pos, mode) ==
  /\ build = "mjs"
  /\ "mouseup" \in layers[c].handlers
  /\ layers[c].start # None
  /\ LET screen == normalizeRect(layers[c].start[1], pos)
         idle == [layers[c] EXCEPT !.handlers = @ \ {"mousemove", "mouseup"},
                                   !.drawn = "none", !.start = None]
         run == NewRun("capture", c, screen, Capturer_screenToScene(screen))
     IN IF TooSmall(screen)
          THEN /\ layers' = [layers EXCEPT ![c] =
                               [Capturer_deactivate(idle) EXCEPT !.note = "small"]]
               /\ runs' = runs
          ELSE /\ Len(runs) < MaxRuns
               /\ layers' = [layers EXCEPT ![c] = Capturer_deactivate(idle)]
               /\ runs' = Append(runs,
                            CASE mode = "throw" -> CaptureFail(run)
                              [] mode = "sync" -> At(run, NextPc("capture", "extract"))
                              [] OTHER -> At(run, "extract"))
  /\ UNCHANGED <<build, call, host, current, renderer, scene, cap>>

\* _mouseUp after the extract promise settled: onCapture (_handleCapture)
\* opens the prompt dialog, or the catch block reports the error
Capturer_captureSettle(r, ok) ==
  /\ build = "mjs"
  /\ runs[r].pc = "extract"
  /\ runs' = [runs EXCEPT ![r] =
                IF ok THEN At(@, NextPc(@.kind, "extract")) ELSE CaptureFail(@)]
  /\ UNCHANGED <<build, call, host, layers, current, renderer, scene, cap>>

\* the /edit client's responses: the fetch rejects, a non-success status,
\* a body that is not JSON, no result field, a result image
EditResponses == {"reject", "http", "badjson", "nofield", "image"}

\* callNanoBananaAPI after the fetch settled: TRUE when it returns an image
callNanoBananaAPI_returns(resp) == resp = "image"

\* _handleCapture after the prompt dialog resolved with a prompt, or with
\* null for an empty prompt: callNanoBananaAPI sends the request
handleCapture_prompt(r, hasPrompt) ==
  /\ build = "mjs"
  /\ runs[r].pc = "dialog"
  /\ runs' = [runs EXCEPT ![r] =
                IF hasPrompt
                  THEN [At(@, NextPc(@.kind, "dialog")) EXCEPT !.editReq = @ + 1]
                  ELSE End(@, "noprompt")]
  /\ UNCHANGED <<build, call, host, layers, current, renderer, scene, cap>>

\* _handleCapture after the prompt dialog was cancelled or closed
handleCapture_dismiss(r) ==
  /\ build = "mjs"
  /\ runs[r].pc = "dialog"
  /\ runs' = [runs EXCEPT ![r] = End(@, "cancelled")]
  /\ UNCHANGED <<build, call, host, layers, current, renderer, scene, cap>>

\* callNanoBananaAPI after the fetch settled, then _handleCapture:
\* placeEditedTile starts by fetching the data URL
callNanoBananaAPI_settle(r, resp) ==
  /\ build = "mjs"
  /\ runs[r].pc = "edit"
  /\ runs' = [runs EXCEPT ![r] =
                IF callNanoBananaAPI_returns(resp)
                  THEN At(@, NextPc(@.kind, "edit"))
                  ELSE [Fail(@) EXCEPT !.editFailed = TRUE]]
  /\ UNCHANGED <<build, call, host, layers, current, renderer, scene, cap>>

\* placeEditedTile after the data URL was turned into a file
placeEditedTile_file(r, ok) ==
  /\ build = "mjs"
  /\ runs[r].pc = "tofile"
  /\ runs' = [runs EXCEPT ![r] =
                IF ok THEN At(@, NextPc(@.kind, "tofile")) ELSE Fail(@)]
  /\ UNCHANGED <<build, call, host, layers, current, renderer, scene, cap>>

\* placeEditedTile after TileDocument.create settled: the tile gets the
\* rounded coordinates
placeEditedTile_create(r, ok) ==
  /\ build = "mjs"
  /\ runs[r].pc = "create"
  /\ IF ok
       THEN /\ runs' = [runs EXCEPT ![r] =
                          [End(@, "ok") EXCEPT !.placed =
                             Some([f \in DOMAIN runs[r].rect |->
                                     Round(runs[r].rect[f].num, runs[r].rect[f].den)])]]
            /\ scene' = [scene EXCEPT !.tiles = @ \cup {r}]
       ELSE /\ runs' = [runs EXCEPT ![r] = Fail(@)]
            /\ scene' = scene
  /\ UNCHANGED <<build, call, host, layers, current, renderer, cap>>

(***************************************************************************)
(* Build "portrait": showPortraitEditDialog and showTokenEditDialog        *)
(* (portrait-dialog.js) with the helpers of portrait.js.                   *)
(***************************************************************************)
\* showPortraitEditDialog / showTokenEditDialog, up to the dialog
showPortraitEditDialog(kind) ==
  /\ build = "portrait"
  /\ Len(runs) < MaxRuns
  /\ LET run == NewRun(kind, 0, NoRect, NoRect)
     IN runs' = Append(runs, IF ~host.image THEN End(run, "nothing")
                             ELSE At(run, "dialog"))
  /\ UNCHANGED <<build, call, host, layers, current, renderer, scene, cap>>

\* the generate button: an empty prompt warns and resolves null; otherwise
\* the image of the actor is loaded
showPortraitEditDialog_generate(r, hasPrompt) ==
  /\ build = "portrait"
  /\ runs[r].pc = "dialog"
  /\ runs' = [runs EXCEPT ![r] =
                IF hasPrompt THEN At(@, NextPc(@.kind, "dialog"))
                ELSE End(@, "noprompt")]
  /\ UNCHANGED <<build, call, host, layers, current, renderer, scene, cap>>

\* the cancel button or the close of the dialog
showPortraitEditDialog_dismiss(r) ==
  /\ build = "portrait"
  /\ runs[r].pc = "dialog"
  /\ runs' = [runs EXCEPT ![r] = End(@, "cancelled")]
  /\ UNCHANGED <<build, call, host, layers, current, renderer, scene, cap>>

\* loadImageAsBase64 settled; then sendImg2Img is called
loadImageAsBase64_settle(r, ok) ==
  /\ build = "portrait"
  /\ runs[r].pc = "load"
  /\ runs' = [runs EXCEPT ![r] = IF ok THEN sendImg2Img(@) ELSE Fail(@)]
  /\ UNCHANGED <<build, call, host, layers, current, renderer, scene, cap>>

\* updateActorPortrait / updateActorToken after actor.update settled; the
\* token dialog then updates the placed tokens of the actor on the scene
updateActor_settle(r, ok) ==
  /\ build = "portrait"
  /\ runs[r].pc = "update"
  /\ runs' = [runs EXCEPT ![r] =
                IF ~ok THEN Fail(@)
                ELSE IF @.kind = "token" /\ host.hasScene /\ host.placed
                  THEN [At(@, NextPc(@.kind, "update")) EXCEPT !.docs = @ + 1]
                  ELSE [End(@, "ok") EXCEPT !.docs = @ + 1]]
  /\ UNCHANGED <<build, call, host, layers, current, renderer, scene, cap>>

\* updateActorToken after the update of the placed token settled
updateActorToken_token(r, ok) ==
  /\ build = "portrait"
  /\ runs[r].pc = "tokens"
  /\ runs' = [runs EXCEPT ![r] =
                IF ok THEN [End(@, "ok") EXCEPT !.docs = @ + 1] ELSE Fail(@)]
  /\ UNCHANGED <<build, call, host, layers, current, renderer, scene, cap>>

(***************************************************************************)
(* Build "capture": one call of the two-strategy captureCanvasRegion, in   *)
(* its three versions.  "rt" is the offscreen-render (RenderTexture)       *)
(* strategy, "readback" the crop of the visible canvas.  The record cap:   *)
(*   impl     the version: "capture.js", "part_002" or "main.mjs"          *)
(*   pc       the strategy about to run, "rt_extract" (the offscreen       *)
(*            strategy awaits the extraction), "done" or "idle"            *)
(*   rect     the scene rectangle to capture                               *)
(*   stage    position and scale of canvas.stage                           *)
(*   stage0   history: the stage when the call was made                    *)
(*   tried    history: strategies that were started                        *)
(*   failed   history: strategies that ended without an image              *)
(*   threw    history: strategies that raised an exception                 *)
(*   rtEnd    history: how the offscreen strategy ended: "none" (it has    *)
(*            not), "image" or "threw"                                     *)
(*   done     "running", "resolved" or "rejected"                          *)
(***************************************************************************)
\* capture.js without the try/catch around its first strategy
CaptureJs_uncaught == [order |-> <<"rt", "readback">>, caught |-> {}, blankCheck |-> FALSE]

\* capture.js: offscreen render in a try/catch first, readback after it
CaptureJs == [order |-> <<"rt", "readback">>, caught |-> {"rt"}, blankCheck |-> FALSE]

\* part_002: readback (with a blank check) in a try/catch first, offscreen
\* render after it outside any try
Part002 == [order |-> <<"readback", "rt">>, caught |-> {"readback"}, blankCheck |-> TRUE]

\* main.mjs: readback first, offscreen render second, each in a try/catch
MainMjs == [order |-> <<"readback", "rt">>, caught |-> {"readback", "rt"}, blankCheck |-> FALSE]

Impl(name) ==
  CASE name = "capture.js" -> CaptureJs
    [] name = "part_002" -> Part002
    [] OTHER -> MainMjs

NewCap(impl, rect, stage) ==
  [impl |-> impl, pc |-> Impl(impl).order[1], rect |-> rect, stage |-> stage,
   stage0 |-> stage, tried |-> {}, failed |-> {}, threw |-> {},
   rtEnd |-> "none", done |-> "running"]

\* strategy s ended without an image: by an exception (threw), or by
\* falling out of its block.  An uncaught exception rejects the call; after
\* the first strategy the second runs; after the second the call throws.
StrategyFailed(c, s, didThrow) ==
  LET i == Impl(c.impl)
      c1 == [c EXCEPT !.tried = @ \cup {s}, !.failed = @ \cup {s},
                      !.threw = IF didThrow THEN @ \cup {s} ELSE @]
  IN IF didThrow /\ s \notin i.caught
       THEN [c1 EXCEPT !.pc = "done", !.done = "rejected"]
     ELSE IF s = i.order[1]
       THEN [c1 EXCEPT !.pc = i.order[2]]
     ELSE [c1 EXCEPT !.pc = "done", !.done = "rejected"]

\* the readback strategy: there is no view, drawImage / toDataURL throws,
\* the crop is blank, or the crop has content
ReadbackResults == {"noview", "throws", "blank", "image"}

captureCanvasRegion_readback(res) ==
  /\ build = "capture"
  /\ cap.pc = "readback"
  /\ cap' = IF res = "image" \/ (res = "blank" /\ ~Impl(cap.impl).blankCheck)
              THEN [cap EXCEPT !.tried = @ \cup {"readback"},
                               !.pc = "done", !.done = "resolved"]
              ELSE StrategyFailed(cap, "readback", res = "throws")
  /\ UNCHANGED <<build, call, host, layers, current, runs, renderer, scene>>

\* the offscreen strategy up to its await: RenderTexture.create throws;
\* both renderer.render calls throw, after the stage was moved; or the
\* render succeeds, the stage is put back and the extraction is awaited
RenderResults == {"create", "render", "extracting"}

captureCanvasRegion_renderTexture(res) ==
  /\ build = "capture"
  /\ cap.pc = "rt"
  /\ cap' = CASE res = "create" ->
                   StrategyFailed([cap EXCEPT !.rtEnd = "threw"], "rt", TRUE)
              [] res = "render" ->
                   StrategyFailed(
                     [cap EXCEPT !.rtEnd = "threw",
                                 !.stage = [x |-> -cap.rect.x, y |-> -cap.rect.y,
                                            scale |-> 1]], "rt", TRUE)
              [] OTHER ->
                   [cap EXCEPT !.tried = @ \cup {"rt"}, !.pc = "rt_extract",
                               !.stage = [x |-> cap.stage.x, y |-> cap.stage.y,
                                          scale |-> cap.stage.scale]]
  /\ UNCHANGED <<build, call, host, layers, current, runs, renderer, scene>>

\* the offscreen strategy after the extraction settled: extract.canvas or,
\* after it failed, extract.base64 gave the image, or both failed
captureCanvasRegion_extractSettle(ok) ==
  /\ build = "capture"
  /\ cap.pc = "rt_extract"
  /\ cap' = IF ok THEN [cap EXCEPT !.rtEnd = "image", !.pc = "done",
                                   !.done = "resolved"]
            ELSE StrategyFailed([cap EXCEPT !.rtEnd = "threw"], "rt", TRUE)
  /\ UNCHANGED <<build, call, host, layers, current, runs, renderer, scene>>

(***************************************************************************)
(* The remote clients, one call each:                                      *)
(*   "sd"     sendImg2Img of the single-image backend (unnamed/part_000)   *)
(*   "mm"     sendImg2Img of the multimodal backend (unnamed/part_001)     *)
(*   "edit"   callNanoBananaAPI of the generic /edit backend               *)
(*   "check"  checkApiConnection (part_000 and part_001 alike)             *)
(* The record call:                                                        *)
(*   fn          the function called                                       *)
(*   configured  the setting the function requires is set (apiUrl for      *)
(*               "sd", apiKey for "mm" and "check")                        *)
(*   response    what the backend will answer                              *)
(*   pc          "start", "fetch" (the request is in flight) or "done"     *)
(*   requests    history: network requests issued                          *)
(*   settled     "pending", "resolved" or "rejected"                       *)
(*   value       the value the promise resolved to                         *)
(*   error       the error the promise rejected with                       *)
(* A string is a sequence of tokens: the tokens "data:" and                *)
(* "image/png;base64," of a data URL, and base64 payloads, which contain   *)
(* neither ":" nor ",".                                                    *)
(***************************************************************************)
DataUrlPrefix == <<"data:", "image/png;base64,">>
Payloads == {<<"AAAA">>, <<"BBBB">>}
\* the image strings a backend may send: empty, raw base64, a data URL
ImageStrings == {<< >>} \cup Payloads \cup {DataUrlPrefix \o <<"AAAA">>}

\* s.startsWith('data:')
StartsWithData(s) == Len(s) >= 1 /\ s[1] = "data:"

\* s.replace(/^data:image\/png;base64,/, "")
StripDataUrl(s) ==
  IF Len(s) >= 2 /\ SubSeq(s, 1, 2) = DataUrlPrefix THEN SubSeq(s, 3, Len(s)) ELSE s

\* the longest list a response carries
MaxList == 2

\* all sequences over S of length at most n
RECURSIVE SeqsUpTo(_, _)
SeqsUpTo(S, n) ==
  IF n = 0 THEN {<< >>}
  ELSE LET shorter == SeqsUpTo(S, n - 1)
       IN shorter \cup {Append(q, e) : q \in {t \in shorter : Len(t) = n - 1}, e \in S}

Resolved(v) == [settled |-> "resolved", value |-> Some(v), error |-> "none"]
Rejected(e) == [settled |-> "rejected", value |-> None, error |-> e]

\* the statuses of a request: the fetch rejects, it is aborted by the
\* 5-second timeout signal, a non-success status, a success status with a
\* body that is not JSON, a success status with a JSON body
Statuses == {"reject", "timeout", "http", "badjson", "ok"}

\* sendImg2Img (part_000) after the fetch settled, lines 45-68
SdBodies == {[images |-> None]} \cup
            {[images |-> Some(l)] : l \in SeqsUpTo(ImageStrings, MaxList)}

sendImg2Img_sd(status, body) ==
  CASE status \in {"reject", "timeout"} -> Rejected("network")
    [] status = "http" -> Rejected("backend")
    [] status = "badjson" -> Rejected("json")
    [] OTHER ->
         IF body.images = None \/ Len(body.images[1]) = 0
           THEN Rejected("noimages")
           ELSE Resolved(body.images[1][1])

\* the parts of a multimodal candidate: text, inlineData with data, and
\* inlineData whose data is missing or empty
Parts == {[kind |-> "text", data |-> <<"hello">>],
          [kind |-> "inline", data |-> << >>]} \cup
         {[kind |-> "inline", data |-> d] : d \in Payloads}

\* part.inlineData?.data is truthy
HasImageData(part) == part.kind = "inline" /\ part.data # << >>

\* a loop that keeps the last part with image data instead of returning at
\* the first
LastImagePart(parts, i) ==
  LET with == {j \in i..Len(parts) : HasImageData(parts[j])}
  IN IF with = {} THEN 0 ELSE CHOOSE j \in with : \A k \in with : k <= j

\* the for loop of lines 101-105 from part i on: the index of the first
\* part with image data, 0 when the loop ends without one
RECURSIVE FirstImagePart(_, _)
FirstImagePart(parts, i) ==
  IF i > Len(parts) THEN 0
  ELSE IF HasImageData(parts[i]) THEN i
  ELSE FirstImagePart(parts, i + 1)

\* a second candidate, which the client never reads
OtherCandidate == [parts |-> Some(<<[kind |-> "inline", data |-> <<"BBBB">>]>>)]

MmBodies ==
  LET firsts == {[parts |-> None]} \cup
                {[parts |-> Some(l)] : l \in SeqsUpTo(Parts, MaxList)}
  IN {[candidates |-> None], [candidates |-> Some(<< >>)]} \cup
     {[candidates |-> Some(<<c>>)] : c \in firsts} \cup
     {[candidates |-> Some(<<c, OtherCandidate>>)] : c \in firsts}

\* sendImg2Img (part_001) after the fetch settled, lines 66-111
sendImg2Img_mm(status, body) ==
  CASE status \in {"reject", "timeout"} -> Rejected("network")
    [] status = "http" -> Rejected("backend")
    [] status = "badjson" -> Rejected("json")
    [] OTHER ->
         IF body.candidates = None \/ Len(body.candidates[1]) = 0
           THEN Rejected("nocandidates")
         ELSE LET parts == body.candidates[1][1].parts
              IN IF parts = None THEN Rejected("noparts")
                 ELSE LET i == FirstImagePart(parts[1], 1)
                      IN IF i = 0 THEN Rejected("noimage")
                         ELSE Resolved(parts[1][i].data)

\* the four result fields of an /edit response: absent (or null), an empty
\* string, raw base64, a data URL
FieldValues == {None} \cup {Some(v) : v \in {<< >>, <<"AAAA">>, DataUrlPrefix \o <<"AAAA">>}}
EditBodies == [result : FieldValues, image : FieldValues,
               output : FieldValues, generated_image : FieldValues]

\* a ?? b
Coalesce(a, b) == IF a # None THEN a ELSE b

\* callNanoBananaAPI after the fetch settled, lines 171-209
callNanoBananaAPI(status, body) ==
  CASE status \in {"reject", "timeout"} -> Rejected("network")
    [] status = "http" -> Rejected("backend")
    [] status = "badjson" -> Rejected("json")
    [] OTHER ->
         LET raw == Coalesce(body.result, Coalesce(body.image,
                      Coalesce(body.output, body.generated_image)))
         IN IF raw = None \/ raw[1] = << >> THEN Rejected("nofield")
            ELSE Resolved(IF StartsWithData(raw[1]) THEN raw[1]
                          ELSE DataUrlPrefix \o raw[1])

\* a probe without the try / catch around the fetch
checkApiConnection_nocatch(status) ==
  IF status \in {"reject", "timeout"} THEN Rejected("network")
  ELSE Resolved(status \in {"badjson", "ok"})

\* checkApiConnection after the fetch settled: response.ok, or the catch
checkApiConnection(status) ==
  IF status \in {"reject", "timeout"} THEN Resolved(FALSE)
  ELSE Resolved(status \in {"badjson", "ok"})

NewCall(fn, configured, response) ==
  [fn |-> fn, configured |-> configured, response |-> response, pc |-> "start",
   requests |-> 0, settled |-> "pending", value |-> None, error |-> "none"]

\* the call settles with outcome o (Resolved or Rejected)
Settle(c, o) ==
  [c EXCEPT !.pc = "done", !.settled = o.settled, !.value = o.value, !.error = o.error]

\* sendImg2Img (part_000 lines 22-49, part_001 lines 36-70) up to the await
\* of fetch: the setting is checked, then the request is sent
sendImg2Img_call ==
  /\ build = "client"
  /\ call.fn \in {"sd", "mm"} /\ call.pc = "start"
  /\ call' = IF ~call.configured THEN Settle(call, Rejected("nocredential"))
             ELSE [call EXCEPT !.pc = "fetch", !.requests = @ + 1]
  /\ UNCHANGED <<build, host, layers, current, runs, renderer, scene, cap>>

sendImg2Img_response ==
  /\ build = "client"
  /\ call.fn \in {"sd", "mm"} /\ call.pc = "fetch"
  /\ call' = Settle(call,
               IF call.fn = "sd"
                 THEN sendImg2Img_sd(call.response.status, call.response.body)
                 ELSE sendImg2Img_mm(call.response.status, call.response.body))
  /\ UNCHANGED <<build, host, layers, current, runs, renderer, scene, cap>>

\* callNanoBananaAPI up to the await of fetch: the key only adds a header
callNanoBananaAPI_call ==
  /\ build = "client"
  /\ call.fn = "edit" /\ call.pc = "start"
  /\ call' = [call EXCEPT !.pc = "fetch", !.requests = @ + 1]
  /\ UNCHANGED <<build, host, layers, current, runs, renderer, scene, cap>>

callNanoBananaAPI_response ==
  /\ build = "client"
  /\ call.fn = "edit" /\ call.pc = "fetch"
  /\ call' = Settle(call, callNanoBananaAPI(call.response.status, call.response.body))
  /\ UNCHANGED <<build, host, layers, current, runs, renderer, scene, cap>>

\* checkApiConnection up to the await of fetch
checkApiConnection_call ==
  /\ build = "client"
  /\ call.fn = "check" /\ call.pc = "start"
  /\ call' = IF ~call.configured THEN Settle(call, Resolved(FALSE))
             ELSE [call EXCEPT !.pc = "fetch", !.requests = @ + 1]
  /\ UNCHANGED <<build, host, layers, current, runs, renderer, scene, cap>>

checkApiConnection_response ==
  /\ build = "client"
  /\ call.fn = "check" /\ call.pc = "fetch"
  /\ call' = Settle(call, checkApiConnection(call.response.status))
  /\ UNCHANGED <<build, host, layers, current, runs, renderer, scene, cap>>

\* the responses a backend may give to fn
Responses_of(fn) ==
  {[status |-> st, body |-> << >>] : st \in Statuses \ {"ok"}} \cup
  {[status |-> "ok", body |-> b] :
     b \in CASE fn = "sd" -> SdBodies
             [] fn = "mm" -> MmBodies
             [] fn = "edit" -> EditBodies
             [] OTHER -> {<< >>}}

InitClient ==
  /\ build = "client"
  /\ \E fn \in {"sd", "mm", "edit", "check"}, configured \in BOOLEAN :
       \E response \in Responses_of(fn) : call = NewCall(fn, configured, response)

NextClient ==
  \/ sendImg2Img_call
  \/ sendImg2Img_response
  \/ callNanoBananaAPI_call
  \/ callNanoBananaAPI_response
  \/ checkApiConnection_call
  \/ checkApiConnection_response

(***************************************************************************)
(* Flood-fill removeWhiteBackground (background-removal.js).  The image    *)
(* is the RGBA array of getImageData: pixel idx is data[idx + 1].          *)
(***************************************************************************)
MaxW == 3
MaxH == 3
FloodThreshold == 30

White == [r |-> 255, g |-> 255, b |-> 255, a |-> 255]
Black == [r |-> 0, g |-> 0, b |-> 0, a |-> 255]
Clear == [r |-> 0, g |-> 0, b |-> 0, a |-> 5]
Palette == {White, Black, Clear}

\* isWhitish, lines 50-58
isWhitish(data, idx) ==
  LET p == data[idx + 1]
      dr == 255 - p.r
      dg == 255 - p.g
      db == 255 - p.b
  IN IF p.a < 10 THEN TRUE
     ELSE dr * dr + dg * dg + db * db <= FloodThreshold * FloodThreshold

\* if (!visited[n] && isWhitish(n)) { visited[n] = 1; queue.push(n); },
\* for the pixels of list in order
RECURSIVE Visit(_, _)
Visit(c, list) ==
  IF list = << >> THEN c
  ELSE LET n == Head(list)
       IN Visit(IF n \notin c.visited /\ isWhitish(c.data, n)
                  THEN [c EXCEPT !.visited = @ \cup {n}, !.queue = Append(@, n)]
                  ELSE c,
                Tail(list))

\* the pixels the two seed loops look at, in their order (lines 67-91)
SeedList(w, h) ==
  [i \in 1..(2 * w) |-> IF i % 2 = 1 THEN (i - 1) \div 2
                        ELSE (h - 1) * w + (i - 2) \div 2] \o
  [i \in 1..(IF h > 2 THEN 2 * (h - 2) ELSE 0) |->
     IF i % 2 = 1 THEN ((i + 1) \div 2) * w
     ELSE (i \div 2) * w + (w - 1)]

\* 8-connected neighbours
Neighbours_diagonal(idx, w, h) ==
  LET x == idx % w
      y == (idx - x) \div w
  IN (IF x > 0 THEN <<idx - 1>> ELSE << >>) \o
     (IF x < w - 1 THEN <<idx + 1>> ELSE << >>) \o
     (IF y > 0 THEN <<idx - w>> ELSE << >>) \o
     (IF y < h - 1 THEN <<idx + w>> ELSE << >>) \o
     (IF x > 0 /\ y > 0 THEN <<idx - w - 1>> ELSE << >>) \o
     (IF x < w - 1 /\ y < h - 1 THEN <<idx + w + 1>> ELSE << >>)

\* the neighbours one iteration of the BFS loop looks at (lines 94-115)
Neighbours(idx, w, h) ==
  LET x == idx % w
      y == (idx - x) \div w
  IN (IF x > 0 THEN <<idx - 1>> ELSE << >>) \o
     (IF x < w - 1 THEN <<idx + 1>> ELSE << >>) \o
     (IF y > 0 THEN <<idx - w>> ELSE << >>) \o
     (IF y < h - 1 THEN <<idx + w>> ELSE << >>)

\* the two seed loops
removeWhiteBackground_seed ==
  /\ call.fn = "flood" /\ call.pc = "start"
  /\ call' = [Visit(call, SeedList(call.w, call.h)) EXCEPT !.pc = "bfs"]
  /\ UNCHANGED <<build, host, layers, current, runs, renderer, scene, cap>>

\* one iteration of while (head < queue.length)
removeWhiteBackground_expand ==
  /\ call.fn = "flood" /\ call.pc = "bfs"
  /\ call.head < Len(call.queue)
  /\ call' = Visit([call EXCEPT !.head = @ + 1],
                   Neighbours(call.queue[call.head + 1], call.w, call.h))
  /\ UNCHANGED <<build, host, layers, current, runs, renderer, scene, cap>>

\* the loop that makes the visited pixels transparent (lines 118-123)
removeWhiteBackground_clear ==
  /\ call.fn = "flood" /\ call.pc = "bfs"
  /\ call.head >= Len(call.queue)
  /\ call' = [call EXCEPT
                !.pc = "done",
                !.data = [i \in 1..Len(@) |->
                            IF (i - 1) \in call.visited
                              THEN [@[i] EXCEPT !.a = 0] ELSE @[i]]]
  /\ UNCHANGED <<build, host, layers, current, runs, renderer, scene, cap>>

\* removeWhiteBackground called with an image of w x h pixels; input keeps
\* the pixels as they were loaded
InitFlood ==
  /\ build = "flood"
  /\ \E w \in 1..MaxW, h \in 1..MaxH :
       \E data \in [1..(w * h) -> Palette] :
         call = [fn |-> "flood", pc |-> "start", w |-> w, h |-> h,
                 input |-> data, data |-> data,
                 visited |-> {}, queue |-> << >>, head |-> 0]

(***************************************************************************)
(* Thresholding removeWhiteBackground (portrait.js).                       *)
(***************************************************************************)
BrightThreshold == 240

\* channel values around the threshold, opaque and half-transparent pixels
Channels == {BrightThreshold - 1, BrightThreshold, BrightThreshold + 1}
Pixels == [r : Channels, g : Channels, b : Channels, a : {255, 128}]

\* img.onload, lines 338-356: the loop over the pixels of getImageData
portrait_removeWhiteBackground ==
  /\ call.fn = "threshold" /\ call.pc = "start"
  /\ call' = [call EXCEPT
                !.pc = "done",
                !.data = [i \in 1..Len(@) |->
                            IF /\ @[i].r >= BrightThreshold
                               /\ @[i].g >= BrightThreshold
                               /\ @[i].b >= BrightThreshold
                              THEN [@[i] EXCEPT !.a = 0] ELSE @[i]]]
  /\ UNCHANGED <<build, host, layers, current, runs, renderer, scene, cap>>

InitThreshold ==
  /\ build = "threshold"
  /\ \E n \in 1..MaxList :
       \E data \in [1..n -> Pixels] :
         call = [fn |-> "threshold", pc |-> "start", input |-> data, data |-> data]

(***************************************************************************)
(* The scene-to-device mapping of the readback capture (capture.js,        *)
(* unnamed/part_002, main.mjs) and the inverse of the overlay              *)
(* (capture.mjs).  The stage scale is the fraction n / d.                  *)
(***************************************************************************)
\* srcX, srcY, srcW, srcH: capture.js lines 88-94 and main.mjs lines 269-275
\* multiply by the resolution, part_002 lines 36-39 does not
srcRect(impl, rect, scale, offset, resolution) ==
  LET k == IF impl = "part_002" THEN 1 ELSE resolution
  IN [x |-> Round((rect.x * scale.n + offset.x * scale.d) * k, scale.d),
      y |-> Round((rect.y * scale.n + offset.y * scale.d) * k, scale.d),
      width |-> Round(rect.width * scale.n * k, scale.d),
      height |-> Round(rect.height * scale.n * k, scale.d)]

MapRects == {[x |-> 100, y |-> 100, width |-> 200, height |-> 150],
             [x |-> 5, y |-> -3, width |-> 7, height |-> 10]}
MapScales == {[n |-> 2, d |-> 1], [n |-> 1, d |-> 1], [n |-> 1, d |-> 2], [n |-> 0, d |-> 1]}
MapOffsets == {[x |-> 50, y |-> 50], [x |-> 4, y |-> -6]}

\* captureCanvasRegion reads the stage transform and the resolution and
\* computes the source rectangle of drawImage
captureCanvasRegion_srcRect ==
  /\ call.fn = "map" /\ call.pc = "start"
  /\ call' = [call EXCEPT
                !.pc = "device",
                !.device = srcRect(call.impl, call.rect, call.scale, call.offset,
                                   renderer.resolution)]
  /\ UNCHANGED <<build, host, layers, current, runs, renderer, scene, cap>>

\* _screenToScene applied to the device rectangle under the same transform
Capturer_screenToScene_device ==
  /\ call.fn = "map" /\ call.pc = "device"
  /\ call' = [call EXCEPT !.pc = "done", !.scene = Capturer_screenToScene(call.device)]
  /\ UNCHANGED <<build, host, layers, current, runs, renderer, scene, cap>>

(***************************************************************************)
(* The render calls of the layer-composite captureCanvasRegion             *)
(* (unnamed/part_003 lines 71-104).  A render call is the display object   *)
(* and the clear option it was given: None when the option is absent.      *)
(***************************************************************************)
\* the renderer.render calls of the try block, in program order
RenderCalls(c) ==
  LET \* the calls for the placeables of list that pass keep, in list order
      pick(name, list, keep(_)) ==
        LET idx == SelectSeq([i \in 1..Len(list) |-> i], LAMBDA i : keep(list[i]))
        IN [k \in 1..Len(idx) |-> [target |-> <<name, idx[k]>>, clear |-> Some(FALSE)]]
      tile(t) == ~t.hidden /\ t.mesh
      scenery(d) == ~d.hidden /\ ~d.interface /\ d.shape
      token(t) == ~t.hidden /\ t.mesh
      info(d) == ~d.hidden /\ d.interface /\ d.shape
  IN <<[target |-> <<"hidden", 0>>, clear |-> Some(FALSE)],
       [target |-> <<"background", 0>>, clear |-> None]>> \o
     pick("tile", c.tiles, tile) \o
     pick("drawing", c.drawings, scenery) \o
     <<[target |-> <<"visibility", 0>>, clear |-> Some(FALSE)]>> \o
     (IF c.grid THEN <<[target |-> <<"grid", 0>>, clear |-> Some(FALSE)]>> ELSE << >>) \o
     pick("token", c.tokens, token) \o
     pick("drawing", c.drawings, info)

\* what the render texture holds after the calls from i on were made on
\* rt: a call clears first when its option says so, and when the option is
\* absent, when the renderer's clearBeforeRender is set
RECURSIVE Paint(_, _, _, _)
Paint(rt, calls, i, clearBeforeRender) ==
  IF i > Len(calls) THEN rt
  ELSE LET clear == IF calls[i].clear = None THEN clearBeforeRender
                    ELSE calls[i].clear[1]
       IN Paint((IF clear THEN << >> ELSE rt) \o <<calls[i].target>>,
                calls, i + 1, clearBeforeRender)

\* the try block up to the await of createThumbnail
captureCanvasRegion_renderLayers ==
  /\ call.fn = "composite" /\ call.pc = "start"
  /\ call' = [call EXCEPT !.pc = "thumb",
                          !.calls = RenderCalls(call),
                          !.rt = Paint(<< >>, RenderCalls(call), 1, call.clearBeforeRender)]
  /\ UNCHANGED <<build, host, layers, current, runs, renderer, scene, cap>>

\* a canvas with some tiles, drawings and tokens, a grid mesh or none, and
\* the renderer's clearBeforeRender
InitComposite ==
  /\ build = "composite"
  /\ \E tiles \in SeqsUpTo([hidden : BOOLEAN, mesh : BOOLEAN], MaxList),
        drawings \in SeqsUpTo([hidden : BOOLEAN, interface : BOOLEAN, shape : BOOLEAN], MaxList),
        tokens \in SeqsUpTo([hidden : BOOLEAN, mesh : BOOLEAN], MaxList),
        grid \in BOOLEAN, clearBeforeRender \in BOOLEAN :
       call = [fn |-> "composite", pc |-> "start", tiles |-> tiles,
               drawings |-> drawings, tokens |-> tokens, grid |-> grid,
               clearBeforeRender |-> clearBeforeRender, calls |-> << >>, rt |-> << >>]

(***************************************************************************)
(* _normalizeRect on its own: one pointer-up with an anchor and a release  *)
(* point, and the same two points the other way round.                     *)
(***************************************************************************)
Corners == [x : {-3, 0, 7}, y : {-3, 0, 7}]

normalizeRect_call ==
  /\ call.fn = "rect" /\ call.pc = "start"
  /\ call' = [call EXCEPT !.pc = "done",
                          !.out = normalizeRect(call.start, call.end),
                          !.swapped = normalizeRect(call.end, call.start)]
  /\ UNCHANGED <<build, host, layers, current, runs, renderer, scene, cap>>

InitRect ==
  /\ build = "rect"
  /\ \E start \in Corners, end \in Corners :
       call = [fn |-> "rect", pc |-> "start", start |-> start, end |-> end,
               out |-> NoRect, swapped |-> NoRect]

(***************************************************************************)
(* Specification.                                                          *)
(***************************************************************************)
\* the host as the module finds it: the apiKey setting is set, a scene is
\* active, #board exists, the stage's worldTransform (a = d = wt.a), the
\* actor has an image, a token of the actor is placed on the scene
Host0 ==
  [apiKey |-> TRUE, hasScene |-> TRUE, board |-> TRUE,
   wt |-> [a |-> [n |-> 2, d |-> 1], tx |-> 5, ty |-> -6], image |-> TRUE, placed |-> FALSE]
Scene0 == [tiles |-> {}, background |-> 0]
CapIdle == [NewCap("main.mjs", NoRect, [x |-> 0, y |-> 0, scale |-> 1]) EXCEPT !.pc = "idle"]
CaptureImpls == {"capture.js", "part_002", "main.mjs"}
CaptureRects == {[x |-> 0, y |-> 0, width |-> 20, height |-> 10],
                 [x |-> 30, y |-> 20, width |-> 10, height |-> 10]}
Stages == {[x |-> 0, y |-> 0, scale |-> 1], [x |-> -30, y |-> 20, scale |-> 2]}

InitJs ==
  /\ build = "js"
  /\ cap = CapIdle
  /\ \E k \in BOOLEAN, sc \in BOOLEAN :
        host = [Host0 EXCEPT !.apiKey = k, !.hasScene = sc]
  /\ scene \in {[tiles |-> t, background |-> 0] : t \in {{}, {0}}}
  /\ host.hasScene \/ scene.tiles = {}

InitMjs ==
  /\ build = "mjs"
  /\ cap = CapIdle
  /\ \E b \in BOOLEAN : host = [Host0 EXCEPT !.board = b]
  /\ scene = Scene0

InitPortrait ==
  /\ build = "portrait"
  /\ cap = CapIdle
  /\ \E k \in BOOLEAN, i \in BOOLEAN, sc \in BOOLEAN, pl \in BOOLEAN :
        host = [Host0 EXCEPT !.apiKey = k, !.image = i, !.hasScene = sc, !.placed = pl]
  /\ scene = Scene0

InitCapture ==
  /\ build = "capture"
  /\ host = Host0
  /\ scene = Scene0
  /\ \E impl \in CaptureImpls, rect \in CaptureRects, stage \in Stages :
        cap = NewCap(impl, rect, stage)

\* one capture of rect under a stage transform and a renderer resolution;
\* worldTransform of the stage is its scale and position
InitMap ==
  /\ build = "map"
  /\ \E resolution \in 1..HostResolution : renderer = [Renderer0 EXCEPT !.resolution = resolution]
  /\ \E impl \in CaptureImpls, rect \in MapRects, scale \in MapScales, offset \in MapOffsets :
       /\ host = [Host0 EXCEPT !.wt = [a |-> scale, tx |-> offset.x, ty |-> offset.y]]
       /\ call = [fn |-> "map", pc |-> "start", impl |-> impl, rect |-> rect,
                  scale |-> scale, offset |-> offset, device |-> NoRect, scene |-> NoRect]

CallIdle == [NewCall("none", TRUE, [status |-> "ok", body |-> << >>]) EXCEPT !.pc = "idle"]

Init ==
  /\ layers = << >>
  /\ current = 0
  /\ runs = << >>
  /\ renderer = Renderer0
  /\ call = CallIdle
  /\ (InitJs \/ InitMjs \/ InitPortrait \/ InitCapture)

NextJs ==
  \/ nanobananaTool_onChange
  \/ \E l \in 1..Len(layers) : Layer_removalFrame(l)
  \/ \E l \in 1..Len(layers), pos \in Points : Layer_handlePointerDown(l, pos)
  \/ \E l \in 1..Len(layers), pos \in Points : Layer_handlePointerMove(l, pos)
  \/ \E l \in 1..Len(layers), ev \in {"pointerup", "pointerupoutside"},
        pos \in Points, renderThrows \in BOOLEAN :
          Layer_handlePointerUp(l, ev, pos, renderThrows)
  \/ \E r \in 1..Len(runs), ok \in BOOLEAN : captureCanvasRegion_settle(r, ok)
  \/ \E r \in 1..Len(runs), hasPrompt \in BOOLEAN : showPromptDialog_generate(r, hasPrompt)
  \/ \E r \in 1..Len(runs) : showPromptDialog_dismiss(r)
  \/ \E r \in 1..Len(runs), resp \in Responses : sendImg2Img_settle(r, resp)
  \/ \E r \in 1..Len(runs) : createDirectory_settle(r)
  \/ \E r \in 1..Len(runs), res \in UploadResults : upload_settle(r, res)
  \/ \E r \in 1..Len(runs), ok \in BOOLEAN : placeTile_create(r, ok)
  \/ flattenTiles
  \/ \E r \in 1..Len(runs), yes \in BOOLEAN, renderThrows \in BOOLEAN :
        flattenTiles_confirm(r, yes, renderThrows)
  \/ \E r \in 1..Len(runs), ok \in BOOLEAN : flattenTiles_update(r, ok)
  \/ \E r \in 1..Len(runs), ok \in BOOLEAN : flattenTiles_delete(r, ok)

NextMjs ==
  \/ canvasReady
  \/ \E toggled \in BOOLEAN : captureTool_onClick(toggled)
  \/ toggleCapture_onDown
  \/ \E c \in 1..Len(layers), pos \in Points : Capturer_mouseDown(c, pos)
  \/ \E c \in 1..Len(layers), pos \in Points : Capturer_mouseMove(c, pos)
  \/ \E c \in 1..Len(layers), pos \in Points, mode \in CaptureModes :
        Capturer_mouseUp(c, pos, mode)
  \/ \E r \in 1..Len(runs), ok \in BOOLEAN : Capturer_captureSettle(r, ok)
  \/ \E r \in 1..Len(runs), hasPrompt \in BOOLEAN : handleCapture_prompt(r, hasPrompt)
  \/ \E r \in 1..Len(runs) : handleCapture_dismiss(r)
  \/ \E r \in 1..Len(runs), resp \in EditResponses : callNanoBananaAPI_settle(r, resp)
  \/ \E r \in 1..Len(runs), ok \in BOOLEAN : placeEditedTile_file(r, ok)
  \/ \E r \in 1..Len(runs), ok \in BOOLEAN : placeEditedTile_create(r, ok)

NextPortrait ==
  \/ \E kind \in {"portrait", "token"} : showPortraitEditDialog(kind)
  \/ \E r \in 1..Len(runs), hasPrompt \in BOOLEAN :
        showPortraitEditDialog_generate(r, hasPrompt)
  \/ \E r \in 1..Len(runs) : showPortraitEditDialog_dismiss(r)
  \/ \E r \in 1..Len(runs), ok \in BOOLEAN : loadImageAsBase64_settle(r, ok)
  \/ \E r \in 1..Len(runs), ok \in BOOLEAN : updateActor_settle(r, ok)
  \/ \E r \in 1..Len(runs), ok \in BOOLEAN : updateActorToken_token(r, ok)

NextCapture ==
  \/ \E res \in ReadbackResults : captureCanvasRegion_readback(res)
  \/ \E res \in RenderResults : captureCanvasRegion_renderTexture(res)
  \/ \E ok \in BOOLEAN : captureCanvasRegion_extractSettle(ok)

Next == NextJs \/ NextMjs \/ NextPortrait \/ NextCapture

Spec == Init /\ [][Next]_vars

\* the functions without shared state, each applied to one drawn input
InitCalls ==
  /\ layers = << >>
  /\ current = 0
  /\ runs = << >>
  /\ scene = Scene0
  /\ cap = CapIdle
  /\ \/ /\ renderer = Renderer0
        /\ host = Host0
        /\ (InitClient \/ InitFlood \/ InitThreshold \/ InitComposite \/ InitRect)
     \/ InitMap

NextCalls ==
  \/ NextClient
  \/ removeWhiteBackground_seed
  \/ removeWhiteBackground_expand
  \/ removeWhiteBackground_clear
  \/ portrait_removeWhiteBackground
  \/ captureCanvasRegion_srcRect
  \/ Capturer_screenToScene_device
  \/ captureCanvasRegion_renderLayers
  \/ normalizeRect_call

SpecCalls == InitCalls /\ [][NextCalls]_vars

(***************************************************************************)
(* Properties.                                                             *)
(***************************************************************************)
Runs == 1..Len(runs)
Layers == 1..Len(layers)

\* C1: in every workflow run (processSelection, _handleCapture, the
\* portrait and the token edit dialog) whose remote edit call failed, no
\* file was uploaded, no tile was created and no actor, token or scene
\* document was updated.
C1_EditFailureLeavesNothing ==
  \A r \in Runs :
    runs[r].editFailed =>
      /\ runs[r].uploads = 0
      /\ runs[r].placed = None
      /\ runs[r].docs = 0
      /\ r \notin scene.tiles

\* a run ended because its remote edit call failed after the request was sent
C1_Witness ==
  \E r \in Runs :
    runs[r].editFailed /\ runs[r].editReq = 1 /\ runs[r].pc = "done"

\* C2: a run whose prompt dialog was dismissed (cancel or close) stopped
\* there: it showed no error message, sent no remote edit request, uploaded
\* nothing and placed no tile; a failed run showed an error message, so the
\* two outcomes differ in what the operator sees.
C2_DismissalIsSilent ==
  \A r \in Runs :
    /\ runs[r].outcome = "cancelled" =>
         /\ runs[r].pc = "done"
         /\ runs[r].errors = 0
         /\ runs[r].editReq = 0
         /\ runs[r].uploads = 0
         /\ runs[r].placed = None
         /\ runs[r].docs = 0
    /\ runs[r].outcome = "failed" => runs[r].errors > 0

\* a processSelection run ended by the dismissal of its prompt dialog
C2_Witness ==
  \E r \in Runs : runs[r].kind = "select" /\ runs[r].outcome = "cancelled"

\* C3: no orchestrator run was started from a finalized rectangle with
\* width < 10 or height < 10, and a controller that finalized such a
\* rectangle has no drag in progress.
C3_SmallSelectionIgnored ==
  /\ \A r \in Runs :
       runs[r].kind \in {"select", "capture"} =>
         runs[r].sel.width >= 10 /\ runs[r].sel.height >= 10
  /\ \A l \in Layers : layers[l].note = "small" => layers[l].start = None

\* a pointer-up finalized a rectangle that was too small
C3_Witness == \E l \in Layers : layers[l].note = "small"

\* C4: a captureCanvasRegion call is rejected only after both strategies
\* ended without an image, and once a strategy other than the last has
\* raised an exception the last one is running or has run.
C4_RejectedOnlyWhenAllFailed ==
  /\ cap.done = "rejected" => cap.failed = {"readback", "rt"}
  /\ \A s \in cap.threw :
       s # Impl(cap.impl).order[2] =>
         \/ cap.pc = Impl(cap.impl).order[2]
         \/ Impl(cap.impl).order[2] \in cap.tried

\* the first strategy raised an exception and the call resolved with the
\* image of the second
C4_Witness == cap.done = "resolved" /\ cap.threw # {}

\* C5: whenever the offscreen-render strategy has ended, with an image or
\* with an exception, the stage position and scale equal those at the call.
C5_StageRestored == cap.rtEnd # "none" => cap.stage = cap.stage0

\* C6: every layer-composite capture that settled left the renderer
\* resolution, the renderer size and the view as they were at its call.
C6_RendererRestored == \A r \in Runs : runs[r].restored # "differ"

\* C7: at most one capture has reconfigured the renderer and not yet
\* restored it.
C7_SingleFlightCapture == Cardinality({r \in Runs : runs[r].pc = "thumb"}) <= 1

\* C8: at most one selection workflow is in progress.
C8_SingleWorkflow ==
  Cardinality({r \in Runs : runs[r].kind \in {"select", "capture"}
                            /\ runs[r].pc # "done"}) <= 1

\* C9: at most one selection layer / overlay is active and attached.
C9_SingleLayer ==
  Cardinality({l \in Layers : layers[l].active /\ layers[l].attached}) <= 1

\* C10: a controller that is not active (deactivate() has run, or it was
\* never activated) has no pointer or mouse handler registered, no drag
\* anchor and no visible overlay; the pointer actions are enabled only by
\* a registered handler, so no later event changes it or starts a run.
C10_DeactivateTearsDown ==
  \A l \in Layers :
    ~layers[l].active =>
      /\ layers[l].handlers = {}
      /\ layers[l].start = None
      /\ ~layers[l].shown
      /\ layers[l].drawn = "none"

\* deactivate() was called in the middle of a drag
C10_Witness == \E l \in Layers : ~layers[l].active /\ layers[l].note = "drag"

C12_NoEmptySuccess ==
  (call.fn \in {"sd", "mm"} /\ call.settled = "resolved") => call.value[1] # << >>

\* C13: an edit call of the single-image client that resolved carries the
\* first image of the response without its data-URL prefix, so a raw string
\* and the same string behind the prefix give the same result.
C13_PrefixStripped ==
  (call.fn = "sd" /\ call.settled = "resolved") =>
    call.value = Some(StripDataUrl(call.response.body.images[1][1]))

\* C14: when the multimodal client has read a success response whose first
\* candidate has a parts list, it resolved with the data of the first part
\* in list order that carries image data (the parts before it carry none)
\* and rejected when no part carries any.
C14_FirstImagePart ==
  (/\ call.fn = "mm" /\ call.pc = "done" /\ call.requests = 1
   /\ call.response.status = "ok"
   /\ call.response.body.candidates # None
   /\ Len(call.response.body.candidates[1]) > 0
   /\ call.response.body.candidates[1][1].parts # None) =>
    LET parts == call.response.body.candidates[1][1].parts[1]
        image(i) == parts[i].kind = "inline" /\ parts[i].data # << >>
    IN \/ /\ call.settled = "rejected"
          /\ \A i \in 1..Len(parts) : ~image(i)
       \/ /\ call.settled = "resolved"
          /\ \E i \in 1..Len(parts) :
                /\ image(i)
                /\ \A j \in 1..(i - 1) : ~image(j)
                /\ call.value = Some(parts[i].data)

\* the response with a text part followed by the image part BBBB gave BBBB
C14_Witness ==
  /\ call.fn = "mm" /\ call.pc = "done" /\ call.response.status = "ok"
  /\ call.response.body.candidates # None
  /\ Len(call.response.body.candidates[1]) = 2
  /\ call.response.body.candidates[1][1].parts =
       Some(<<[kind |-> "text", data |-> <<"hello">>],
              [kind |-> "inline", data |-> <<"BBBB">>]>>)
  /\ call.value = Some(<<"BBBB">>)

\* C15: when the /edit client has read a success response, it resolved
\* with the data URL of one of the fields result, image, output and
\* generated_image that hold an image string when there is such a field,
\* and rejected only when there is none.
C15_AnyFieldAccepted ==
  (call.fn = "edit" /\ call.pc = "done" /\ call.response.status = "ok") =>
    LET body == call.response.body
        usable == {f \in {"result", "image", "output", "generated_image"} :
                     body[f] # None /\ body[f][1] # << >>}
    IN IF usable = {} THEN call.settled = "rejected"
       ELSE /\ call.settled = "resolved"
            /\ \E f \in usable :
                  call.value = Some(IF body[f][1][1] = "data:" THEN body[f][1]
                                    ELSE <<"data:", "image/png;base64,">> \o body[f][1])

\* C16: checkApiConnection never rejects; once settled it resolved to a
\* boolean, which is true exactly when the setting is present and the
\* response had a success status, and without the setting no request was
\* sent.
C16_ProbeIsBoolean ==
  call.fn = "check" =>
    /\ call.settled # "rejected"
    /\ ~call.configured => call.requests = 0
    /\ call.pc = "done" =>
          /\ call.settled = "resolved"
          /\ call.value \in {Some(TRUE), Some(FALSE)}
          /\ call.value = Some(TRUE) <=>
                (call.configured /\ call.response.status \in {"ok", "badjson"})

\* a probe whose request ran into the timeout resolved to false
C16_Witness ==
  /\ call.fn = "check" /\ call.pc = "done" /\ call.requests = 1
  /\ call.response.status = "timeout"
  /\ call.value = Some(FALSE)

\* C17: when the flood-fill removeWhiteBackground is done, a pixel has
\* alpha 0 written exactly when it is background-like (alpha below 10, or
\* within the colour distance of white) and connected through 4-neighbour
\* background-like pixels to a background-like pixel of the border; every
\* other pixel has the alpha it was loaded with, and every pixel has the
\* R, G and B it was loaded with.
C17_FloodFillExact ==
  (call.fn = "flood" /\ call.pc = "done") =>
    LET w == call.w
        h == call.h
        px == 0..(w * h - 1)
        X(i) == i % w
        Y(i) == i \div w
        like(i) ==
          \/ call.input[i + 1].a < 10
          \/ (255 - call.input[i + 1].r) * (255 - call.input[i + 1].r)
             + (255 - call.input[i + 1].g) * (255 - call.input[i + 1].g)
             + (255 - call.input[i + 1].b) * (255 - call.input[i + 1].b) <= 900
        border(i) == X(i) = 0 \/ X(i) = w - 1 \/ Y(i) = 0 \/ Y(i) = h - 1
        adjacent(i, j) == Abs(X(i) - X(j)) + Abs(Y(i) - Y(j)) = 1
        grow(S) == S \cup {j \in px : like(j) /\ \E i \in S : adjacent(i, j)}
        RECURSIVE closure(_)
        closure(S) == IF grow(S) = S THEN S ELSE closure(grow(S))
        reached == closure({i \in px : border(i) /\ like(i)})
    IN \A i \in px :
         /\ call.data[i + 1].a = IF i \in reached THEN 0 ELSE call.input[i + 1].a
         /\ call.data[i + 1].r = call.input[i + 1].r
         /\ call.data[i + 1].g = call.input[i + 1].g
         /\ call.data[i + 1].b = call.input[i + 1].b

\* a white 3 x 3 image with an opaque black centre: the border became
\* transparent and the centre kept alpha 255
C17_Witness ==
  /\ call.fn = "flood" /\ call.pc = "done" /\ call.w = 3 /\ call.h = 3
  /\ call.input = [i \in 1..9 |-> IF i = 5 THEN Black ELSE White]
  /\ call.data = [i \in 1..9 |-> IF i = 5 THEN Black ELSE [White EXCEPT !.a = 0]]

\* C18: when the thresholding removeWhiteBackground is done, a pixel has
\* alpha 0 written exactly when its R, G and B are all greater than the
\* threshold; every other pixel has the alpha it was loaded with, and every
\* pixel has the R, G and B it was loaded with.
C18_ExactlyAboveThreshold ==
  (call.fn = "threshold" /\ call.pc = "done") =>
    \A i \in 1..Len(call.input) :
      /\ call.data[i].a = IF /\ call.input[i].r > BrightThreshold
                             /\ call.input[i].g > BrightThreshold
                             /\ call.input[i].b > BrightThreshold
                            THEN 0 ELSE call.input[i].a
      /\ call.data[i].r = call.input[i].r
      /\ call.data[i].g = call.input[i].g
      /\ call.data[i].b = call.input[i].b

\* C19: the source rectangle that the readback capture of each build
\* computed is x = round((rect.x * scale + offset.x) * resolution), the
\* same for y, and width = round(rect.width * scale * resolution), the same
\* for height.
C19_ForwardMapping ==
  (call.fn = "map" /\ call.pc # "start") =>
    LET n == call.scale.n
        d == call.scale.d
        res == renderer.resolution
        nearest(v, a, b) == 2 * b * v - b <= 2 * a /\ 2 * a < 2 * b * v + b
    IN /\ nearest(call.device.x, (call.rect.x * n + call.offset.x * d) * res, d)
       /\ nearest(call.device.y, (call.rect.y * n + call.offset.y * d) * res, d)
       /\ nearest(call.device.width, call.rect.width * n * res, d)
       /\ nearest(call.device.height, call.rect.height * n * res, d)

\* C20: under a transform with non-zero scale, a rectangle mapped to device
\* pixels by capture.js and back by _screenToScene under the same transform
\* differs from the original by at most one device pixel in x, y, width
\* and height.
C20_RoundTrip ==
  (/\ call.fn = "map" /\ call.impl = "capture.js" /\ call.pc = "done"
   /\ call.scale.n # 0) =>
    LET tol(a, b) == Abs(a.num - b * a.den) * renderer.resolution * call.scale.n
                       <= call.scale.d * a.den
    IN /\ tol(call.scene.x, call.rect.x)
       /\ tol(call.scene.y, call.rect.y)
       /\ tol(call.scene.width, call.rect.width)
       /\ tol(call.scene.height, call.rect.height)

\* C21: a conversion under a transform whose scale is zero does not produce
\* a rectangle: _screenToScene returns no Infinity, -Infinity or NaN
\* coordinate.
C21_ZeroScaleRejected ==
  (call.fn = "map" /\ call.pc = "done" /\ call.scale.n = 0) =>
    \A f \in {"x", "y", "width", "height"} :
      call.scene[f] \notin {"Infinity", "-Infinity", "NaN"}

\* C22: a run whose capture or whose remote edit failed showed exactly one
\* error message, and that message carried the detail text of the failure.
C22_OneMessageWithDetail ==
  \A r \in Runs :
    (runs[r].captureFailed \/ runs[r].editFailed) =>
      runs[r].errors = 1 /\ runs[r].detail = 1

\* C23: once the layer-composite capture has rendered, the texture holds,
\* in this order, the hidden group, the background, the tiles, the
\* non-interface drawings, the visibility layer, the grid, the tokens and
\* the interface drawings (none of them cleared away), and it holds no
\* tile, drawing or token whose document is hidden.
C23_LayerOrderNoClear ==
  (call.fn = "composite" /\ call.pc = "thumb") =>
    LET rank(t) == CASE t[1] = "hidden" -> 1
                     [] t[1] = "background" -> 2
                     [] t[1] = "tile" -> 3
                     [] t[1] = "drawing" -> IF call.drawings[t[2]].interface THEN 8 ELSE 4
                     [] t[1] = "visibility" -> 5
                     [] t[1] = "grid" -> 6
                     [] OTHER -> 7
        shown(t) == CASE t[1] = "tile" -> ~call.tiles[t[2]].hidden
                      [] t[1] = "drawing" -> ~call.drawings[t[2]].hidden
                      [] t[1] = "token" -> ~call.tokens[t[2]].hidden
                      [] OTHER -> TRUE
    IN /\ Len(call.rt) = Len(call.calls)
       /\ call.rt[1] = <<"hidden", 0>>
       /\ \A i \in 1..Len(call.rt) : shown(call.rt[i])
       /\ \A i, j \in 1..Len(call.rt) :
            i < j => \/ rank(call.rt[i]) < rank(call.rt[j])
                     \/ /\ rank(call.rt[i]) = rank(call.rt[j])
                        /\ call.rt[i][2] < call.rt[j][2]

\* C24: every run that uploaded a file had sent a remote edit request
\* before, and that request had not failed: what it uploaded was the result
\* of the edit, not the captured image.
C24_OnlyEditedImagesUploaded ==
  \A r \in Runs :
    runs[r].uploads > 0 => (runs[r].editReq > 0 /\ ~runs[r].editFailed)

\* C25: the tile that a run created has the x, y, width and height of the
\* rectangle that the selection finalized and the run captured.
C25_TileAtSelection ==
  \A r \in Runs :
    (runs[r].kind \in {"select", "capture"} /\ runs[r].placed # None) =>
      \A f \in {"x", "y", "width", "height"} :
        IF runs[r].kind = "select"
          THEN runs[r].placed[1][f] = runs[r].rect[f]
          ELSE runs[r].placed[1][f] * runs[r].rect[f].den = runs[r].rect[f].num

\* C26: a run whose upload was rejected or gave no path after its remote
\* edit had succeeded ended there as failed: it created no tile and updated
\* no document, it showed one error message with the text of the upload
\* error, and it sent the one edit request it had sent before and no more.
C26_UploadFailureReported ==
  \A r \in Runs :
    (runs[r].uploadFailed /\ runs[r].kind # "flatten") =>
      /\ runs[r].pc = "done" /\ runs[r].outcome = "failed"
      /\ runs[r].placed = None /\ r \notin scene.tiles /\ runs[r].docs = 0
      /\ runs[r].errors = 1 /\ runs[r].detail = 1
      /\ runs[r].editReq = 1 /\ ~runs[r].editFailed

\* the upload of placeEditedTile failed after the /edit call had succeeded
C26_Witness ==
  \E r \in Runs :
    runs[r].kind = "capture" /\ runs[r].uploadFailed /\ runs[r].editReq = 1

\* C27: the rectangle that a pointer-up computes from the anchor and the
\* release point has x and y equal to the smaller of the two x and of the
\* two y values and width and height equal to the distances between them,
\* so neither is negative, and the two points the other way round give the
\* same rectangle.
C27_NormalizedRect ==
  (call.fn = "rect" /\ call.pc = "done") =>
    LET a == call.start
        b == call.end
    IN /\ call.out.x = (IF a.x <= b.x THEN a.x ELSE b.x)
       /\ call.out.y = (IF a.y <= b.y THEN a.y ELSE b.y)
       /\ call.out.width \in {a.x - b.x, b.x - a.x} /\ call.out.width >= 0
       /\ call.out.height \in {a.y - b.y, b.y - a.y} /\ call.out.height >= 0
       /\ call.swapped = call.out

\* a drag to the left and downwards
C27_Witness ==
  /\ call.fn = "rect" /\ call.pc = "done"
  /\ call.start = [x |-> 7, y |-> -3] /\ call.end = [x |-> 0, y |-> 7]
  /\ call.out = [x |-> 0, y |-> -3, width |-> 7, height |-> 10]

\* C28: a selection layer whose removal is pending or done is in no hover
\* tracking table and has no listener, and a container leaves the stage
\* only in a step taken while its removal is pending: the step in which
\* deactivate runs leaves it attached.
C28_PurgeBeforeRemoval ==
  /\ [](build = "js" =>
          \A l \in Layers :
            (layers[l].removal \/ ~layers[l].attached) =>
              (~layers[l].over /\ layers[l].handlers = {}))
  /\ [][build = "js" =>
          \A l \in Layers :
            (layers[l].attached /\ ~layers'[l].attached) =>
              (layers[l].removal /\ ~layers[l].active)]_vars

\* deactivate ran in the middle of a drag, with the pointer over the
\* container, and the frame callback has not run yet
C28_Witness ==
  /\ build = "js"
  /\ \E l \in Layers :
       layers[l].removal /\ layers[l].attached /\ layers[l].note = "drag"

\* C29: a step invokes the orchestrator at most once, and only for a drag
\* in progress on the controller it comes from, which the same step ends:
\* a further pointer-up finds no drag and starts nothing.  A run sends at
\* most one remote edit request, stores at most one file and creates at
\* most one tile.
C29_OneRunPerDrag ==
  /\ [](\A r \in Runs :
          runs[r].kind \in {"select", "capture"} =>
            (runs[r].editReq <= 1 /\ runs[r].uploads <= 1 /\ Len(runs[r].placed) <= 1))
  /\ [][/\ Len(runs') <= Len(runs) + 1
        /\ (Len(runs') = Len(runs) + 1 /\ runs'[Len(runs')].kind \in {"select", "capture"}) =>
             LET l == runs'[Len(runs')].from
             IN /\ l \in Layers
                /\ layers[l].start # None
                /\ layers'[l].start = None
                /\ layers'[l].handlers \cap {"pointerup", "pointerupoutside", "mouseup"} = {}]_vars

\* two drags on the same controller, each with its own run, the first of
\* which sent its one request and placed its one tile
C29_Witness ==
  \E r1, r2 \in Runs :
    /\ r1 < r2
    /\ runs[r1].kind \in {"select", "capture"}
    /\ runs[r2].kind = runs[r1].kind
    /\ runs[r1].from = runs[r2].from
    /\ runs[r1].editReq = 1
    /\ runs[r1].placed # None

====
